---- MODULE Spec2Model ----
(***************************************************************************)
(* Model of src/main.py: the three ring-buffer queues BufferDynamic,       *)
(* BufferFixed and BufferFixedOverwrite (with its nested Iterator).        *)
(*                                                                         *)
(* One instance of each class is constructed with the same max_size, and   *)
(* every call (enqueue(item) or dequeue()) is issued to each of the three  *)
(* instances.  The instances share nothing, so each one sees every finite  *)
(* sequence of calls.  A Python list is a sequence: list index i is        *)
(* sequence index i + 1.  A raised exception is part of a call's outcome.  *)
(***************************************************************************)
EXTENDS Integers, Sequences, FiniteSets

VARIABLES
    d_buffer, d_max_size, d_head, d_tail, d_size,   \* BufferDynamic fields
    f_buffer, f_max_size, f_head, f_tail, f_size,   \* BufferFixed fields
    o_buffer, o_max_size, o_size,                   \* BufferFixedOverwrite fields
    it_max_index, it_in_index, it_out_index,        \* BufferFixedOverwrite.Iterator fields
    calls,      \* the calls issued so far, oldest first
    d_out,      \* outcome of each call on the BufferDynamic instance
    f_out,      \* outcome of each call on the BufferFixed instance
    o_out,      \* outcome of each call on the BufferFixedOverwrite instance
    o_slots,    \* storage indices the Iterator has handed to BufferFixedOverwrite
    d_peak,     \* largest value d_size has had so far
    d_view,     \* what the latest call returned if it was an inspection of BufferDynamic
    f_view,     \* the same for BufferFixed
    o_view      \* the same for BufferFixedOverwrite

d_fields == <<d_buffer, d_max_size, d_head, d_tail, d_size>>
f_fields == <<f_buffer, f_max_size, f_head, f_tail, f_size>>
o_fields == <<o_buffer, o_max_size, o_size, it_max_index, it_in_index, it_out_index>>
views == <<d_view, f_view, o_view>>
vars == <<d_fields, f_fields, o_fields, calls, d_out, f_out, o_out, o_slots, d_peak, views>>

\* Bounds of the model.
MaxCap   == 3
MaxItem  == 2
MaxCalls == 8

\* Python's None; items are the non-None values 1..MaxItem.
None  == 0
Items == 1..MaxItem

\* Outcome of a call: the exception it raised ("none" if it returned) and
\* the value it returned.
Returned(v) == [exc |-> "none", ret |-> v]
Raised(msg) == [exc |-> msg, ret |-> None]

\* What an inspection call (get_buffer, is_empty, is_full) returned; NoView
\* when the latest call was not an inspection.
View(op, v) == [op |-> op, ret |-> v]
NoView == View("none", None)

\* [None] * max_size
NoneList(n) == [i \in 1..n |-> None]

\* A list index i is valid for list b iff 0 <= i < len(b) (indices are never
\* negative here).
InRange(b, i) == i >= 0 /\ i < Len(b)

----------------------------------------------------------------------------
(* BufferDynamic *)

BufferDynamic_init(max_size) ==
    /\ d_buffer = << >>
    /\ d_max_size = max_size
    /\ d_head = 0
    /\ d_tail = 0
    /\ d_size = 0

BufferDynamic_is_empty == d_size = 0

\* is_full that only trips once the capacity has been exceeded.
BufferDynamic_is_full_Late == d_size > d_max_size

BufferDynamic_is_full == d_size = d_max_size

\* enqueue that advances tail without wrapping it.
BufferDynamic_enqueue_TailNoWrap(item) ==
    IF BufferDynamic_is_full
    THEN /\ d_out' = Append(d_out, Raised("Buffer is full"))
         /\ UNCHANGED d_fields
    ELSE IF Len(d_buffer) < d_max_size
    THEN /\ d_buffer' = Append(d_buffer, item)
         /\ d_tail' = d_tail + 1
         /\ d_size' = d_size + 1
         /\ d_out' = Append(d_out, Returned(None))
         /\ UNCHANGED <<d_max_size, d_head>>
    ELSE IF InRange(d_buffer, d_tail)
    THEN /\ d_buffer' = [d_buffer EXCEPT ![d_tail + 1] = item]
         /\ d_tail' = d_tail + 1
         /\ d_size' = d_size + 1
         /\ d_out' = Append(d_out, Returned(None))
         /\ UNCHANGED <<d_max_size, d_head>>
    ELSE /\ d_out' = Append(d_out, Raised("IndexError"))
         /\ UNCHANGED d_fields

\* enqueue that keeps appending while len(buffer) <= max_size.
BufferDynamic_enqueue_AppendLate(item) ==
    IF BufferDynamic_is_full
    THEN /\ d_out' = Append(d_out, Raised("Buffer is full"))
         /\ UNCHANGED d_fields
    ELSE IF Len(d_buffer) <= d_max_size
    THEN /\ d_buffer' = Append(d_buffer, item)
         /\ d_tail' = (d_tail + 1) % d_max_size
         /\ d_size' = d_size + 1
         /\ d_out' = Append(d_out, Returned(None))
         /\ UNCHANGED <<d_max_size, d_head>>
    ELSE /\ d_buffer' = [d_buffer EXCEPT ![d_tail + 1] = item]
         /\ d_tail' = (d_tail + 1) % d_max_size
         /\ d_size' = d_size + 1
         /\ d_out' = Append(d_out, Returned(None))
         /\ UNCHANGED <<d_max_size, d_head>>

BufferDynamic_enqueue(item) ==
    IF BufferDynamic_is_full
    THEN /\ d_out' = Append(d_out, Raised("Buffer is full"))
         /\ UNCHANGED d_fields
    ELSE IF Len(d_buffer) < d_max_size
    THEN /\ d_buffer' = Append(d_buffer, item)
         /\ d_tail' = (d_tail + 1) % d_max_size
         /\ d_size' = d_size + 1
         /\ d_out' = Append(d_out, Returned(None))
         /\ UNCHANGED <<d_max_size, d_head>>
    ELSE IF InRange(d_buffer, d_tail)
    THEN /\ d_buffer' = [d_buffer EXCEPT ![d_tail + 1] = item]
         /\ d_tail' = (d_tail + 1) % d_max_size
         /\ d_size' = d_size + 1
         /\ d_out' = Append(d_out, Returned(None))
         /\ UNCHANGED <<d_max_size, d_head>>
    ELSE /\ d_out' = Append(d_out, Raised("IndexError"))
         /\ UNCHANGED d_fields

\* dequeue that removes the slot it read instead of clearing it.
BufferDynamic_dequeue_Pop ==
    IF BufferDynamic_is_empty
    THEN /\ d_out' = Append(d_out, Raised("Buffer is empty"))
         /\ UNCHANGED d_fields
    ELSE IF InRange(d_buffer, d_head)
    THEN /\ d_out' = Append(d_out, Returned(d_buffer[d_head + 1]))
         /\ d_buffer' = SubSeq(d_buffer, 1, d_head) \o SubSeq(d_buffer, d_head + 2, Len(d_buffer))
         /\ d_head' = (d_head + 1) % d_max_size
         /\ d_size' = d_size - 1
         /\ UNCHANGED <<d_max_size, d_tail>>
    ELSE /\ d_out' = Append(d_out, Raised("IndexError"))
         /\ UNCHANGED d_fields

\* dequeue that forgets to clear the slot it read.
BufferDynamic_dequeue_NoClear ==
    IF BufferDynamic_is_empty
    THEN /\ d_out' = Append(d_out, Raised("Buffer is empty"))
         /\ UNCHANGED d_fields
    ELSE IF InRange(d_buffer, d_head)
    THEN /\ d_out' = Append(d_out, Returned(d_buffer[d_head + 1]))
         /\ d_head' = (d_head + 1) % d_max_size
         /\ d_size' = d_size - 1
         /\ UNCHANGED <<d_buffer, d_max_size, d_tail>>
    ELSE /\ d_out' = Append(d_out, Raised("IndexError"))
         /\ UNCHANGED d_fields

\* dequeue that forgets to decrement size.
BufferDynamic_dequeue_KeepSize ==
    IF BufferDynamic_is_empty
    THEN /\ d_out' = Append(d_out, Raised("Buffer is empty"))
         /\ UNCHANGED d_fields
    ELSE IF InRange(d_buffer, d_head)
    THEN /\ d_out' = Append(d_out, Returned(d_buffer[d_head + 1]))
         /\ d_buffer' = [d_buffer EXCEPT ![d_head + 1] = None]
         /\ d_head' = (d_head + 1) % d_max_size
         /\ UNCHANGED <<d_max_size, d_tail, d_size>>
    ELSE /\ d_out' = Append(d_out, Raised("IndexError"))
         /\ UNCHANGED d_fields

BufferDynamic_dequeue ==
    IF BufferDynamic_is_empty
    THEN /\ d_out' = Append(d_out, Raised("Buffer is empty"))
         /\ UNCHANGED d_fields
    ELSE IF InRange(d_buffer, d_head)
    THEN /\ d_out' = Append(d_out, Returned(d_buffer[d_head + 1]))
         /\ d_buffer' = [d_buffer EXCEPT ![d_head + 1] = None]
         /\ d_head' = (d_head + 1) % d_max_size
         /\ d_size' = d_size - 1
         /\ UNCHANGED <<d_max_size, d_tail>>
    ELSE /\ d_out' = Append(d_out, Raised("IndexError"))
         /\ UNCHANGED d_fields

\* get_buffer() returns the list itself and assigns nothing.
BufferDynamic_get_buffer ==
    /\ d_view' = View("get_buffer", d_buffer)
    /\ UNCHANGED d_fields

----------------------------------------------------------------------------
(* BufferFixed *)

BufferFixed_init(max_size) ==
    /\ f_buffer = NoneList(max_size)
    /\ f_max_size = max_size
    /\ f_head = 0
    /\ f_tail = 0
    /\ f_size = 0

\* is_empty decided from the cursors, which also coincide when full.
BufferFixed_is_empty_Cursors == f_head = f_tail

BufferFixed_is_empty == f_size = 0

\* is_full decided from the cursors, which also coincide when empty.
BufferFixed_is_full_Cursors == f_head = f_tail

BufferFixed_is_full == f_size = f_max_size

\* enqueue that stores the item before it checks for a full buffer.
BufferFixed_enqueue_StoreFirst(item) ==
    IF BufferFixed_is_full
    THEN /\ f_out' = Append(f_out, Raised("Buffer is full"))
         /\ f_buffer' = [f_buffer EXCEPT ![f_tail + 1] = item]
         /\ UNCHANGED <<f_max_size, f_head, f_tail, f_size>>
    ELSE /\ f_buffer' = [f_buffer EXCEPT ![f_tail + 1] = item]
         /\ f_tail' = (f_tail + 1) % f_max_size
         /\ f_size' = f_size + 1
         /\ f_out' = Append(f_out, Returned(None))
         /\ UNCHANGED <<f_max_size, f_head>>

BufferFixed_enqueue(item) ==
    IF BufferFixed_is_full
    THEN /\ f_out' = Append(f_out, Raised("Buffer is full"))
         /\ UNCHANGED f_fields
    ELSE IF InRange(f_buffer, f_tail)
    THEN /\ f_buffer' = [f_buffer EXCEPT ![f_tail + 1] = item]
         /\ f_tail' = (f_tail + 1) % f_max_size
         /\ f_size' = f_size + 1
         /\ f_out' = Append(f_out, Returned(None))
         /\ UNCHANGED <<f_max_size, f_head>>
    ELSE /\ f_out' = Append(f_out, Raised("IndexError"))
         /\ UNCHANGED f_fields

\* dequeue that forgets to advance head.
BufferFixed_dequeue_NoAdvance ==
    IF BufferFixed_is_empty
    THEN /\ f_out' = Append(f_out, Raised("Buffer is empty"))
         /\ UNCHANGED f_fields
    ELSE IF InRange(f_buffer, f_head)
    THEN /\ f_out' = Append(f_out, Returned(f_buffer[f_head + 1]))
         /\ f_buffer' = [f_buffer EXCEPT ![f_head + 1] = None]
         /\ f_size' = f_size - 1
         /\ UNCHANGED <<f_max_size, f_tail, f_head>>
    ELSE /\ f_out' = Append(f_out, Raised("IndexError"))
         /\ UNCHANGED f_fields

BufferFixed_dequeue ==
    IF BufferFixed_is_empty
    THEN /\ f_out' = Append(f_out, Raised("Buffer is empty"))
         /\ UNCHANGED f_fields
    ELSE IF InRange(f_buffer, f_head)
    THEN /\ f_out' = Append(f_out, Returned(f_buffer[f_head + 1]))
         /\ f_buffer' = [f_buffer EXCEPT ![f_head + 1] = None]
         /\ f_head' = (f_head + 1) % f_max_size
         /\ f_size' = f_size - 1
         /\ UNCHANGED <<f_max_size, f_tail>>
    ELSE /\ f_out' = Append(f_out, Raised("IndexError"))
         /\ UNCHANGED f_fields

BufferFixed_get_buffer ==
    /\ f_view' = View("get_buffer", f_buffer)
    /\ UNCHANGED f_fields

----------------------------------------------------------------------------
(* BufferFixedOverwrite and BufferFixedOverwrite.Iterator *)

Iterator_init(max_index) ==
    /\ it_max_index = max_index
    /\ it_in_index = 0
    /\ it_out_index = 0

\* get_out that wraps one position too late.
Iterator_get_out_WrapLate ==
    it_out_index' = IF it_out_index = it_max_index + 1 THEN 0 ELSE it_out_index + 1

\* get_out() returns the old out_index (it_out_index, unprimed).
Iterator_get_out ==
    it_out_index' = IF it_out_index = it_max_index THEN 0 ELSE it_out_index + 1

\* get_in that wraps one position too late.
Iterator_get_in_WrapLate ==
    /\ IF it_in_index # 0 /\ it_in_index = it_out_index
       THEN Iterator_get_out
       ELSE UNCHANGED it_out_index
    /\ it_in_index' = IF it_in_index = it_max_index + 1 THEN 0 ELSE it_in_index + 1

\* get_in() returns the old in_index (it_in_index, unprimed); the value of
\* the get_out() it may call is discarded.
Iterator_get_in ==
    /\ IF it_in_index # 0 /\ it_in_index = it_out_index
       THEN Iterator_get_out
       ELSE UNCHANGED it_out_index
    /\ it_in_index' = IF it_in_index = it_max_index THEN 0 ELSE it_in_index + 1

BufferFixedOverwrite_init(max_size) ==
    /\ o_buffer = NoneList(max_size)
    /\ Iterator_init(max_size - 1)
    /\ o_max_size = max_size
    /\ o_size = 0

BufferFixedOverwrite_is_full == o_size = o_max_size

BufferFixedOverwrite_is_empty == o_size = 0

\* self.__buffer[self.__iter.get_in()] = item: the cursor moves first, then
\* the store may raise IndexError, and only then size is incremented.
BufferFixedOverwrite_enqueue(item) ==
    /\ Iterator_get_in
    /\ o_slots' = o_slots \cup {it_in_index}
    /\ UNCHANGED <<o_max_size, it_max_index>>
    /\ IF InRange(o_buffer, it_in_index)
       THEN /\ o_buffer' = [o_buffer EXCEPT ![it_in_index + 1] = item]
            /\ o_size' = o_size + 1
            /\ o_out' = Append(o_out, Returned(None))
       ELSE /\ o_out' = Append(o_out, Raised("IndexError"))
            /\ UNCHANGED <<o_buffer, o_size>>

\* dequeue that asks the Iterator for a slot before it checks for empty.
BufferFixedOverwrite_dequeue_CursorFirst ==
    /\ Iterator_get_out
    /\ UNCHANGED <<o_max_size, it_max_index, it_in_index>>
    /\ IF ~BufferFixedOverwrite_is_empty
       THEN /\ o_slots' = o_slots \cup {it_out_index}
            /\ o_out' = Append(o_out, Returned(o_buffer[it_out_index + 1]))
            /\ o_buffer' = [o_buffer EXCEPT ![it_out_index + 1] = None]
            /\ o_size' = o_size - 1
       ELSE /\ o_out' = Append(o_out, Returned(None))
            /\ UNCHANGED <<o_slots, o_buffer, o_size>>

BufferFixedOverwrite_dequeue ==
    IF ~BufferFixedOverwrite_is_empty
    THEN /\ Iterator_get_out
         /\ o_slots' = o_slots \cup {it_out_index}
         /\ UNCHANGED <<o_max_size, it_max_index, it_in_index>>
         /\ IF InRange(o_buffer, it_out_index)
            THEN /\ o_out' = Append(o_out, Returned(o_buffer[it_out_index + 1]))
                 /\ o_buffer' = [o_buffer EXCEPT ![it_out_index + 1] = None]
                 /\ o_size' = o_size - 1
            ELSE /\ o_out' = Append(o_out, Raised("IndexError"))
                 /\ UNCHANGED <<o_buffer, o_size>>
    ELSE /\ o_out' = Append(o_out, Returned(None))
         /\ UNCHANGED o_slots
         /\ UNCHANGED o_fields

\* get_val() renders the two cursor indices, in_index first.
Iterator_get_val == <<it_in_index, it_out_index>>

\* get_buffer that renders the cursors by asking for the next slots.
BufferFixedOverwrite_get_buffer_Advancing ==
    /\ o_view' = View("get_buffer", <<o_buffer, <<it_in_index, it_out_index>>>>)
    /\ Iterator_get_in
    /\ UNCHANGED <<o_buffer, o_max_size, o_size, it_max_index>>

\* get_buffer() renders the storage followed by get_val() and assigns
\* nothing.
BufferFixedOverwrite_get_buffer ==
    /\ o_view' = View("get_buffer", <<o_buffer, Iterator_get_val>>)
    /\ UNCHANGED o_fields

----------------------------------------------------------------------------
(* The three instances under the same sequence of calls *)

Max(a, b) == IF a >= b THEN a ELSE b

Init ==
    /\ \E max_size \in 1..MaxCap :
          /\ BufferDynamic_init(max_size)
          /\ BufferFixed_init(max_size)
          /\ BufferFixedOverwrite_init(max_size)
    /\ calls = << >>
    /\ d_out = << >>
    /\ f_out = << >>
    /\ o_out = << >>
    /\ o_slots = {}
    /\ d_peak = 0
    /\ d_view = NoView
    /\ f_view = NoView
    /\ o_view = NoView

Enqueue(item) ==
    /\ Len(calls) < MaxCalls
    /\ calls' = Append(calls, [op |-> "enqueue", item |-> item])
    /\ BufferDynamic_enqueue(item)
    /\ BufferFixed_enqueue(item)
    /\ BufferFixedOverwrite_enqueue(item)
    /\ d_peak' = Max(d_peak, d_size')
    /\ d_view' = NoView
    /\ f_view' = NoView
    /\ o_view' = NoView

Dequeue ==
    /\ Len(calls) < MaxCalls
    /\ calls' = Append(calls, [op |-> "dequeue", item |-> None])
    /\ BufferDynamic_dequeue
    /\ BufferFixed_dequeue
    /\ BufferFixedOverwrite_dequeue
    /\ d_peak' = Max(d_peak, d_size')
    /\ d_view' = NoView
    /\ f_view' = NoView
    /\ o_view' = NoView

\* The inspection calls return a value and leave the call log alone.
GetBuffer ==
    /\ BufferDynamic_get_buffer
    /\ BufferFixed_get_buffer
    /\ BufferFixedOverwrite_get_buffer
    /\ UNCHANGED <<calls, d_out, f_out, o_out, o_slots, d_peak>>

\* is_empty() is `return self.__size == 0` in each class: no assignment.
IsEmpty ==
    /\ d_view' = View("is_empty", BufferDynamic_is_empty)
    /\ f_view' = View("is_empty", BufferFixed_is_empty)
    /\ o_view' = View("is_empty", BufferFixedOverwrite_is_empty)
    /\ UNCHANGED <<d_fields, f_fields, o_fields>>
    /\ UNCHANGED <<calls, d_out, f_out, o_out, o_slots, d_peak>>

\* is_full() is `return self.__size == self.__max_size`: no assignment.
IsFull ==
    /\ d_view' = View("is_full", BufferDynamic_is_full)
    /\ f_view' = View("is_full", BufferFixed_is_full)
    /\ o_view' = View("is_full", BufferFixedOverwrite_is_full)
    /\ UNCHANGED <<d_fields, f_fields, o_fields>>
    /\ UNCHANGED <<calls, d_out, f_out, o_out, o_slots, d_peak>>

Next ==
    \/ \E item \in Items : Enqueue(item)
    \/ Dequeue
    \/ GetBuffer
    \/ IsEmpty
    \/ IsFull

Spec == Init /\ [][Next]_vars

----------------------------------------------------------------------------
(* Reading the call log *)

Last(s) == s[Len(s)]

IsPrefix(s, t) == Len(s) <= Len(t) /\ \A i \in 1..Len(s) : s[i] = t[i]

\* The items of the enqueue calls that returned, in call order, for the
\* instance whose outcomes are outs.
RECURSIVE EnqueuedUpTo(_, _)
EnqueuedUpTo(outs, n) ==
    IF n = 0 THEN << >>
    ELSE IF calls[n].op = "enqueue" /\ outs[n].exc = "none"
         THEN Append(EnqueuedUpTo(outs, n - 1), calls[n].item)
         ELSE EnqueuedUpTo(outs, n - 1)

Enqueued(outs) == EnqueuedUpTo(outs, Len(outs))

\* The values returned by the dequeue calls that did not raise, in call order.
RECURSIVE DequeuedUpTo(_, _)
DequeuedUpTo(outs, n) ==
    IF n = 0 THEN << >>
    ELSE IF calls[n].op = "dequeue" /\ outs[n].exc = "none"
         THEN Append(DequeuedUpTo(outs, n - 1), outs[n].ret)
         ELSE DequeuedUpTo(outs, n - 1)

Dequeued(outs) == DequeuedUpTo(outs, Len(outs))

\* The step just taken was a call of op.
Called(op) == calls' # calls /\ Last(calls').op = op

----------------------------------------------------------------------------
(* Claims *)

\* C1: for BufferFixed and BufferDynamic the sequence of items returned by
\* successful dequeues is always a prefix of the sequence of successfully
\* enqueued items (each dequeue returns the oldest item not yet dequeued),
\* also after head and tail have wrapped around.
C1_FifoOrder ==
    /\ IsPrefix(Dequeued(d_out), Enqueued(d_out))
    /\ IsPrefix(Dequeued(f_out), Enqueued(f_out))

\* Both instances have returned more items than they have slots (head has
\* wrapped) and the returned items are not all alike.
C1_Witness ==
    /\ Len(Dequeued(d_out)) > d_max_size
    /\ Len(Dequeued(f_out)) > f_max_size
    /\ f_max_size >= 2
    /\ \E i, j \in 1..Len(Dequeued(f_out)) : Dequeued(f_out)[i] # Dequeued(f_out)[j]
    /\ \E i, j \in 1..Len(Dequeued(d_out)) : Dequeued(d_out)[i] # Dequeued(d_out)[j]

\* C2: for BufferFixed and BufferDynamic an enqueue raises "Buffer is full"
\* exactly when size == max_size before the call, and returns normally
\* whenever size < max_size.
C2_EnqueueFullIff ==
    [][Called("enqueue") =>
        /\ (d_size = d_max_size => Last(d_out').exc = "Buffer is full")
        /\ (d_size # d_max_size => Last(d_out').exc = "none")
        /\ (f_size = f_max_size => Last(f_out').exc = "Buffer is full")
        /\ (f_size # f_max_size => Last(f_out').exc = "none")]_vars

\* max_size + 1 enqueues and nothing else: the last one was rejected by both
\* instances and every earlier one was accepted.
C2_Witness ==
    /\ Len(calls) = d_max_size + 1
    /\ \A i \in 1..Len(calls) : calls[i].op = "enqueue"
    /\ Last(d_out).exc = "Buffer is full"
    /\ Last(f_out).exc = "Buffer is full"
    /\ \A i \in 1..(Len(calls) - 1) : d_out[i].exc = "none" /\ f_out[i].exc = "none"

\* C3: for BufferFixed and BufferDynamic a dequeue raises "Buffer is empty"
\* exactly when size == 0 before the call, and with size > 0 it returns an
\* item (never None).
C3_DequeueEmptyIff ==
    [][Called("dequeue") =>
        /\ (d_size = 0 => Last(d_out').exc = "Buffer is empty")
        /\ (d_size # 0 => Last(d_out').exc = "none" /\ Last(d_out').ret \in Items)
        /\ (f_size = 0 => Last(f_out').exc = "Buffer is empty")
        /\ (f_size # 0 => Last(f_out').exc = "none" /\ Last(f_out').ret \in Items)]_vars

\* A dequeue on the fresh instances was rejected, and a later dequeue on the
\* full instances returned an item.
C3_Witness ==
    /\ Len(calls) = d_max_size + 2
    /\ calls[1].op = "dequeue"
    /\ d_out[1].exc = "Buffer is empty"
    /\ f_out[1].exc = "Buffer is empty"
    /\ Last(calls).op = "dequeue"
    /\ Last(d_out).ret \in Items
    /\ Last(f_out).ret \in Items

\* C4: a rejected enqueue or dequeue on BufferFixed or BufferDynamic leaves
\* head, tail, size, max_size and the storage (contents and length)
\* unchanged.
C4_RejectedCallChangesNothing ==
    [][calls' # calls =>
        /\ (Last(d_out').exc # "none" => UNCHANGED d_fields)
        /\ (Last(f_out').exc # "none" => UNCHANGED f_fields)]_vars

\* Both kinds of rejection have happened on both instances, the enqueue one
\* after head and tail had moved.
C4_Witness ==
    /\ \E i \in 1..Len(calls) :
          /\ d_out[i].exc = "Buffer is empty"
          /\ f_out[i].exc = "Buffer is empty"
    /\ Last(d_out).exc = "Buffer is full"
    /\ Last(f_out).exc = "Buffer is full"
    /\ d_head # 0
    /\ f_head # 0

\* C5: for BufferFixedOverwrite of capacity N, N + 1 enqueues of i1..i(N+1)
\* on a fresh instance followed by dequeues yield i2, i3, ..., i(N+1) in
\* that order (i1 is the evicted item).
OverflowThenDrain ==
    /\ Len(calls) > o_max_size + 1
    /\ Len(calls) <= 2 * o_max_size + 1
    /\ \A i \in 1..Len(calls) :
          calls[i].op = IF i <= o_max_size + 1 THEN "enqueue" ELSE "dequeue"

C5_OverflowEvictsOldest ==
    OverflowThenDrain =>
        \A k \in 1..(Len(calls) - (o_max_size + 1)) :
            o_out[o_max_size + 1 + k] = Returned(calls[k + 1].item)

\* C6: no call on BufferFixedOverwrite ever raises: every enqueue returns,
\* every dequeue returns an item or None, and every index the Iterator hands
\* out is a valid index into the max_size-slot storage.
C6_OverwriteNeverRaises ==
    /\ \A i \in 1..Len(o_out) :
          /\ o_out[i].exc = "none"
          /\ o_out[i].ret \in Items \cup {None}
    /\ o_slots \subseteq 0..(o_max_size - 1)
    /\ Len(o_buffer) = o_max_size

\* More enqueues than slots were accepted with no dequeue in between, every
\* slot has been handed out, and a dequeue found the instance empty.
C6_Witness ==
    /\ \E i \in 1..Len(calls) :
          /\ i > o_max_size + 1
          /\ \A j \in (i - o_max_size)..i : calls[j].op = "enqueue"
    /\ o_slots = 0..(o_max_size - 1)
    /\ calls[1].op = "dequeue"
    /\ o_out[1] = Returned(None)
    /\ o_max_size >= 2

\* C7: for BufferFixedOverwrite of capacity N, 2N strictly alternating calls
\* on a fresh instance (enqueue x1, dequeue, enqueue x2, dequeue, ...) never
\* raise and every dequeue returns the item enqueued just before it.
Alternating ==
    /\ Len(calls) <= 2 * o_max_size
    /\ \A i \in 1..Len(calls) :
          calls[i].op = IF i % 2 = 1 THEN "enqueue" ELSE "dequeue"

C7_AlternatingReturnsEach ==
    Alternating =>
        \A i \in 1..Len(calls) :
            /\ o_out[i].exc = "none"
            /\ (i % 2 = 0 => o_out[i].ret = calls[i - 1].item)

\* C8: for all three classes a fresh instance is empty and not full, and in
\* every reachable state is_empty() and is_full() are not both true.
C8_EmptyFullExclusive ==
    /\ calls = << >> =>
          /\ BufferDynamic_is_empty /\ ~BufferDynamic_is_full
          /\ BufferFixed_is_empty /\ ~BufferFixed_is_full
          /\ BufferFixedOverwrite_is_empty /\ ~BufferFixedOverwrite_is_full
    /\ ~(BufferDynamic_is_empty /\ BufferDynamic_is_full)
    /\ ~(BufferFixed_is_empty /\ BufferFixed_is_full)
    /\ ~(BufferFixedOverwrite_is_empty /\ BufferFixedOverwrite_is_full)

\* All three instances report full after having been empty again in between.
C8_Witness ==
    /\ BufferDynamic_is_full
    /\ BufferFixed_is_full
    /\ BufferFixedOverwrite_is_full
    /\ \E i \in 2..Len(calls) :
          /\ calls[i].op = "dequeue"
          /\ Len(EnqueuedUpTo(f_out, i)) = Len(DequeuedUpTo(f_out, i))

\* C9: BufferDynamic and BufferFixed under the same calls give the same
\* outcome for every call and agree on head, tail and size; the storage of
\* BufferDynamic equals the first len(storage) slots of BufferFixed's, whose
\* remaining slots are None (so the storages are equal once BufferDynamic's
\* has max_size slots).
C9_DynamicMatchesFixed ==
    /\ d_out = f_out
    /\ d_head = f_head
    /\ d_tail = f_tail
    /\ d_size = f_size
    /\ d_max_size = f_max_size
    /\ Len(d_buffer) <= Len(f_buffer)
    /\ \A i \in 1..Len(f_buffer) :
          f_buffer[i] = IF i <= Len(d_buffer) THEN d_buffer[i] ELSE None
    /\ Len(d_buffer) = d_max_size => d_buffer = f_buffer

\* BufferDynamic's storage is fully grown, a slot has been reused after the
\* wrap, and both rejections have been seen.
C9_Witness ==
    /\ Len(d_buffer) = d_max_size
    /\ d_max_size >= 2
    /\ Len(Enqueued(d_out)) > d_max_size
    /\ \E i \in 1..Len(d_buffer) : d_buffer[i] = None
    /\ \E i \in 1..Len(d_buffer) : d_buffer[i] # None
    /\ \E i \in 1..Len(d_out) : d_out[i].exc = "Buffer is full"
    /\ \E i \in 1..Len(d_out) : d_out[i].exc = "Buffer is empty"

\* C10: for BufferDynamic, as long as size has stayed below max_size, the
\* length of the storage does not exceed the largest value size has had.
C10_StorageWithinPeakSize ==
    d_peak < d_max_size => Len(d_buffer) <= d_peak

\* C11: a dequeue on an empty BufferFixedOverwrite (size == 0) returns None
\* without raising and leaves size, both cursor indices and every storage
\* slot unchanged.
C11_EmptyDequeueReturnsNone ==
    [][(Called("dequeue") /\ o_size = 0) =>
        /\ Last(o_out') = Returned(None)
        /\ UNCHANGED o_fields]_vars

\* enqueue, dequeue, dequeue: the second dequeue found the instance empty
\* with the read cursor away from its initial position.
C11_Witness ==
    /\ Len(calls) = 3
    /\ calls[1].op = "enqueue"
    /\ calls[2].op = "dequeue"
    /\ calls[3].op = "dequeue"
    /\ o_out[2].ret \in Items
    /\ o_out[3] = Returned(None)
    /\ o_size = 0
    /\ it_out_index = 1

\* C12: for all three classes the inspection calls get_buffer, is_empty and
\* is_full change no field: size, head and tail (the Iterator's indices for
\* BufferFixedOverwrite), max_size and the storage are as before, so the
\* calls that follow see the same instance.
Inspected == calls' = calls /\ d_view'.op # "none"

C12_InspectionChangesNothing ==
    [][Inspected => UNCHANGED <<d_fields, f_fields, o_fields>>]_vars

\* get_buffer has just been called on instances that hold items and whose
\* cursors have moved.
C12_Witness ==
    /\ o_view.op = "get_buffer"
    /\ d_view.op = "get_buffer"
    /\ f_view.op = "get_buffer"
    /\ d_size > 0
    /\ f_head # 0
    /\ o_size > 0
    /\ it_in_index # 0
    /\ it_out_index # 0

\* C13: for BufferFixed and BufferDynamic of capacity N, always
\* 0 <= size <= N, size is the number of items successfully enqueued and
\* not yet dequeued, is_empty() holds exactly when size == 0 and is_full()
\* exactly when size == N, and max_size never changes.
SizeIsLiveCount ==
    /\ d_size \in 0..d_max_size
    /\ d_size = Len(Enqueued(d_out)) - Len(Dequeued(d_out))
    /\ BufferDynamic_is_empty <=> d_size = 0
    /\ BufferDynamic_is_full <=> d_size = d_max_size
    /\ f_size \in 0..f_max_size
    /\ f_size = Len(Enqueued(f_out)) - Len(Dequeued(f_out))
    /\ BufferFixed_is_empty <=> f_size = 0
    /\ BufferFixed_is_full <=> f_size = f_max_size

C13_SizeBounds ==
    /\ []SizeIsLiveCount
    /\ [][d_max_size' = d_max_size /\ f_max_size' = f_max_size]_vars

\* Both instances are full again after items have been dequeued and after
\* calls have been rejected.
C13_Witness ==
    /\ d_size = d_max_size
    /\ f_size = f_max_size
    /\ Len(Dequeued(d_out)) >= 2
    /\ Len(Dequeued(f_out)) >= 2
    /\ \E i \in 1..Len(d_out) : d_out[i].exc # "none"

\* C14: for BufferFixedOverwrite of capacity N, size never exceeds N and
\* always equals the number of storage slots that hold an item not yet
\* dequeued; so once N unread items are held, further enqueues keep
\* is_full() true.
Occupancy == Cardinality({i \in 1..Len(o_buffer) : o_buffer[i] # None})

C14_SizeIsOccupancy ==
    /\ o_size <= o_max_size
    /\ o_size = Occupancy
    /\ Occupancy = o_max_size => BufferFixedOverwrite_is_full

\* C15: whenever BufferFixedOverwrite reports non-empty, dequeue returns an
\* item (never None), clears the slot it read and decrements size by one.
C15_NonEmptyDequeueReturnsItem ==
    [][(Called("dequeue") /\ ~BufferFixedOverwrite_is_empty) =>
        /\ Last(o_out').exc = "none"
        /\ Last(o_out').ret \in Items
        /\ o_buffer[it_out_index + 1] = Last(o_out').ret
        /\ o_buffer' = [o_buffer EXCEPT ![it_out_index + 1] = None]
        /\ o_size' = o_size - 1]_vars

\* C16: an enqueue on BufferFixedOverwrite moves the read cursor only when
\* the slot it is about to write still holds an item that has not been
\* dequeued; an enqueue into a free slot leaves the read cursor unchanged.
C16_ReadCursorMovesOnlyOnOverwrite ==
    [][(Called("enqueue") /\ it_out_index' # it_out_index) =>
        o_buffer[it_in_index + 1] # None]_vars

\* C17: for BufferFixedOverwrite of capacity N both cursor indices always
\* lie in 0..N-1; an advance moves an index to (index + 1) mod N; one
\* enqueue advances the write index by exactly one position and the read
\* index by at most one, and a dequeue never moves the write index.
CursorsInRange ==
    /\ it_max_index = o_max_size - 1
    /\ it_in_index \in 0..(o_max_size - 1)
    /\ it_out_index \in 0..(o_max_size - 1)

C17_CursorsWrapModuloN ==
    /\ []CursorsInRange
    /\ [][/\ Called("enqueue") =>
               /\ it_in_index' = (it_in_index + 1) % o_max_size
               /\ it_out_index' \in {it_out_index, (it_out_index + 1) % o_max_size}
          /\ Called("dequeue") =>
               /\ it_in_index' = it_in_index
               /\ it_out_index' \in {it_out_index, (it_out_index + 1) % o_max_size}
               /\ ~BufferFixedOverwrite_is_empty =>
                      it_out_index' = (it_out_index + 1) % o_max_size]_vars

\* enqueue, dequeue, enqueue on a 2-slot instance: the second enqueue moved
\* both cursors, each wrapping from 1 back to 0.
C17_Witness ==
    /\ o_max_size = 2
    /\ Len(calls) = 3
    /\ calls[1].op = "enqueue"
    /\ calls[2].op = "dequeue"
    /\ calls[3].op = "enqueue"
    /\ it_in_index = 0
    /\ it_out_index = 0
    /\ o_slots = {0, 1}


Pending(outs) == SubSeq(Enqueued(outs), Len(Dequeued(outs)) + 1, Len(Enqueued(outs)))

RingLayout(buffer, max_size, head, tail, size, outs) ==
    /\ head \in 0..(max_size - 1)
    /\ tail \in 0..(max_size - 1)
    /\ tail = (head + size) % max_size
    /\ size = Len(Pending(outs))
    /\ \A k \in 0..(size - 1) :
          /\ InRange(buffer, (head + k) % max_size)
          /\ buffer[((head + k) % max_size) + 1] = Pending(outs)[k + 1]
    /\ \A i \in 0..(Len(buffer) - 1) :
          (\A k \in 0..(size - 1) : i # (head + k) % max_size) => buffer[i + 1] = None

C19_LiveItemsFromHead ==
    /\ RingLayout(d_buffer, d_max_size, d_head, d_tail, d_size, d_out)
    /\ RingLayout(f_buffer, f_max_size, f_head, f_tail, f_size, f_out)

\* The live items of both instances straddle the end of the storage, next
\* to a slot that a dequeue has cleared.
C19_Witness ==
    /\ d_max_size >= 3
    /\ d_size >= 2
    /\ d_head + d_size > d_max_size
    /\ f_head + f_size > f_max_size
    /\ \E i \in 1..Len(d_buffer) : d_buffer[i] = None
    /\ \E i \in 1..Len(f_buffer) : f_buffer[i] = None

\* C20: for BufferDynamic of capacity N, while the storage length is below N
\* tail equals the storage length; head never exceeds the storage length
\* and is below it whenever size > 0, so no dequeue reads an unallocated
\* slot; and when the storage length reaches N, tail is 0.
TailIsNextSlot ==
    /\ Len(d_buffer) < d_max_size => d_tail = Len(d_buffer)
    /\ d_head <= Len(d_buffer)
    /\ d_size > 0 => d_head < Len(d_buffer)
    /\ \A i \in 1..Len(d_out) : d_out[i].exc # "IndexError"

C20_TailTracksStorageLength ==
    /\ []TailIsNextSlot
    /\ [][(Len(d_buffer) < d_max_size /\ Len(d_buffer') = d_max_size) => d_tail' = 0]_vars

\* The storage has just reached N slots by an append, after dequeues had
\* moved head up to the storage length.
C20_Witness ==
    /\ d_max_size >= 2
    /\ Len(d_buffer) = d_max_size
    /\ Len(Enqueued(d_out)) = d_max_size
    /\ Last(calls).op = "enqueue"
    /\ d_tail = 0
    /\ d_head = d_max_size - 1
    /\ d_size = 1

====
